---- MODULE Spec2Model ----
(***************************************************************************)
(* A model of the travel-agent service: the /travelAgent HTTP handler of   *)
(* main.go, the travelAgent flow, the prompt of prompts.go and the two     *)
(* tools of tools.go.  The hosted model (reached through                   *)
(* agentPrompt.Execute) is an external collaborator: it may call the two   *)
(* tools any number of times and then answers with a text or an error.     *)
(*                                                                         *)
(* Strings.  A Go string is modelled as a sequence of pieces, each piece a *)
(* TLA+ string; the Go string is the concatenation of the pieces.  Data    *)
(* that comes from outside (a request body, a tool argument, the model's   *)
(* answer) is held one byte per piece (see ByteTable); a literal of the    *)
(* source is held as one or a few pieces of ASCII text.                    *)
(***************************************************************************)
EXTENDS Integers, Sequences, FiniteSets, TLC

VARIABLES
    proc,       \* main(): position of the process ("init" .. "serving"/"exited")
    portEnv,    \* the PORT environment variable ("" when unset)
    busy,       \* ports another process already listens on
    addr,       \* the address handed to server.Start
    pc,         \* per request: the handler's position
    method,     \* per request: r.Method
    body,       \* per request: r.Body, one character per piece
    input,      \* per request: the handler's local `input TravelAgentInput`
    decoded,    \* per request: how often json decoding ran
    calls,      \* per request: the requests agentPrompt.Execute received
    toolOut,    \* per request: what the tools returned to the collaborator
    outcome,    \* per request: what agentPrompt.Execute returned
    resp,       \* per request: the responses written to the ResponseWriter
    logged,     \* the process-wide logger's lines (log.Printf)
    trace       \* history: every tool call made, with what it returned

vars == <<proc, portEnv, busy, addr, pc, method, body, input, decoded, calls,
          toolOut, outcome, resp, logged, trace>>

gatewayVars == <<pc, method, body, input, decoded, calls, toolOut, outcome, resp>>
mainVars == <<proc, portEnv, busy, addr>>

(***************************************************************************)
(* Bounds                                                                  *)
(***************************************************************************)
NumReqs == 2          \* requests handled concurrently
MaxToolCalls == 1     \* tool calls the collaborator makes while requests are served
MaxInvocations == 3   \* tool calls made when the tools are run on their own

Reqs == 1..NumReqs

(***************************************************************************)
(* Strings                                                                 *)
(***************************************************************************)
\* The piece that stands for each byte, 0 to 255.  A printable ASCII
\* character stands for itself, "\t" "\n" "\f" "\r" for bytes 9, 10, 12 and
\* 13, and "xhh" for every other byte (hh its value in hexadecimal), the
\* backquote, which a string of TLA+ cannot hold, among them.
ByteTable ==
    <<
      "x00", "x01", "x02", "x03", "x04", "x05", "x06", "x07",
      "x08", "\t", "\n", "x0b", "\f", "\r", "x0e", "x0f",
      "x10", "x11", "x12", "x13", "x14", "x15", "x16", "x17",
      "x18", "x19", "x1a", "x1b", "x1c", "x1d", "x1e", "x1f",
      " ", "!", "\"", "#", "$", "%", "&", "'",
      "(", ")", "*", "+", ",", "-", ".", "/",
      "0", "1", "2", "3", "4", "5", "6", "7",
      "8", "9", ":", ";", "<", "=", ">", "?",
      "@", "A", "B", "C", "D", "E", "F", "G",
      "H", "I", "J", "K", "L", "M", "N", "O",
      "P", "Q", "R", "S", "T", "U", "V", "W",
      "X", "Y", "Z", "[", "\\", "]", "^", "_",
      "x60", "a", "b", "c", "d", "e", "f", "g",
      "h", "i", "j", "k", "l", "m", "n", "o",
      "p", "q", "r", "s", "t", "u", "v", "w",
      "x", "y", "z", "{", "|", "}", "~", "x7f",
      "x80", "x81", "x82", "x83", "x84", "x85", "x86", "x87",
      "x88", "x89", "x8a", "x8b", "x8c", "x8d", "x8e", "x8f",
      "x90", "x91", "x92", "x93", "x94", "x95", "x96", "x97",
      "x98", "x99", "x9a", "x9b", "x9c", "x9d", "x9e", "x9f",
      "xa0", "xa1", "xa2", "xa3", "xa4", "xa5", "xa6", "xa7",
      "xa8", "xa9", "xaa", "xab", "xac", "xad", "xae", "xaf",
      "xb0", "xb1", "xb2", "xb3", "xb4", "xb5", "xb6", "xb7",
      "xb8", "xb9", "xba", "xbb", "xbc", "xbd", "xbe", "xbf",
      "xc0", "xc1", "xc2", "xc3", "xc4", "xc5", "xc6", "xc7",
      "xc8", "xc9", "xca", "xcb", "xcc", "xcd", "xce", "xcf",
      "xd0", "xd1", "xd2", "xd3", "xd4", "xd5", "xd6", "xd7",
      "xd8", "xd9", "xda", "xdb", "xdc", "xdd", "xde", "xdf",
      "xe0", "xe1", "xe2", "xe3", "xe4", "xe5", "xe6", "xe7",
      "xe8", "xe9", "xea", "xeb", "xec", "xed", "xee", "xef",
      "xf0", "xf1", "xf2", "xf3", "xf4", "xf5", "xf6", "xf7",
      "xf8", "xf9", "xfa", "xfb", "xfc", "xfd", "xfe", "xff"
    >>

\* The pieces that stand for a byte, and the byte each stands for
Bytes == {ByteTable[n + 1] : n \in 0..255}
ByteOf == [c \in Bytes |-> CHOOSE n \in 0..255 : ByteTable[n + 1] = c]

IsByte(c) == c \in Bytes
Byte(c) == ByteOf[c]
Piece(n) == ByteTable[n + 1]

HighBytes == {ByteTable[n + 1] : n \in 128..255}
ControlBytes == {ByteTable[n + 1] : n \in 0..31}

HexChars == <<"0","1","2","3","4","5","6","7","8","9","a","b","c","d","e","f">>
\* n below 256 as two hexadecimal digits, n below 65536 as four
Hex2(n) == <<HexChars[(n \div 16) + 1], HexChars[(n % 16) + 1]>>
Hex4(n) == Hex2(n \div 256) \o Hex2(n % 256)

RuneError == 65533

\* What utf8.DecodeRune gives for an invalid or truncated encoding
BadRune == [r |-> RuneError, n |-> 1, ok |-> FALSE]

\* s has at index i a byte between lo and hi, both above 127
InRange(s, i, lo, hi) ==
    /\ i <= Len(s)
    /\ s[i] \in HighBytes
    /\ Byte(s[i]) \in lo..hi

\* The six low bits of a continuation byte
Low6(c) == Byte(c) - 128

\* utf8.DecodeRune at index i of s: the rune and the number of bytes it
\* takes; an invalid or truncated encoding gives RuneError and one byte.
\* A byte below 128 is a rune of its own.
DecodeRune(s, i) ==
    IF s[i] \notin HighBytes THEN [r |-> Byte(s[i]), n |-> 1, ok |-> TRUE]
    ELSE IF InRange(s, i, 194, 223) THEN
        IF InRange(s, i + 1, 128, 191)
        THEN [r |-> (Byte(s[i]) - 192) * 64 + Low6(s[i + 1]), n |-> 2, ok |-> TRUE]
        ELSE BadRune
    ELSE IF InRange(s, i, 224, 239) THEN
        IF /\ InRange(s, i + 1, 128, 191)
           /\ s[i] = Piece(224) => InRange(s, i + 1, 160, 191)
           /\ s[i] = Piece(237) => InRange(s, i + 1, 128, 159)
           /\ InRange(s, i + 2, 128, 191)
        THEN [r |-> (Byte(s[i]) - 224) * 4096 + Low6(s[i + 1]) * 64 + Low6(s[i + 2]),
              n |-> 3, ok |-> TRUE]
        ELSE BadRune
    ELSE IF InRange(s, i, 240, 244) THEN
        IF /\ InRange(s, i + 1, 128, 191)
           /\ s[i] = Piece(240) => InRange(s, i + 1, 144, 191)
           /\ s[i] = Piece(244) => InRange(s, i + 1, 128, 143)
           /\ InRange(s, i + 2, 128, 191)
           /\ InRange(s, i + 3, 128, 191)
        THEN [r |-> (Byte(s[i]) - 240) * 262144 + Low6(s[i + 1]) * 4096
                        + Low6(s[i + 2]) * 64 + Low6(s[i + 3]),
              n |-> 4, ok |-> TRUE]
        ELSE BadRune
    ELSE BadRune

\* utf8.AppendRune: the bytes of rune r
EncodeRune(r) ==
    IF r < 128 THEN <<Piece(r)>>
    ELSE IF r < 2048 THEN <<Piece(192 + (r \div 64)), Piece(128 + (r % 64))>>
    ELSE IF r \in 55296..57343 \/ r > 1114111 THEN <<Piece(239), Piece(191), Piece(189)>>
    ELSE IF r < 65536 THEN
        <<Piece(224 + (r \div 4096)), Piece(128 + ((r \div 64) % 64)),
          Piece(128 + (r % 64))>>
    ELSE <<Piece(240 + (r \div 262144)), Piece(128 + ((r \div 4096) % 64)),
           Piece(128 + ((r \div 64) % 64)), Piece(128 + (r % 64))>>

\* The runes above 127 that have a lower case form, as <<first, last, step,
\* delta>>: every rune first, first + step, .., last maps to itself + delta
\* (the simple lower case mapping of UnicodeData.txt, Unicode 14.0).
LowerRanges ==
    <<
      <<192, 214, 1, 32>>, <<216, 222, 1, 32>>, <<256, 302, 2, 1>>,
      <<304, 304, 1, -199>>, <<306, 310, 2, 1>>, <<313, 327, 2, 1>>,
      <<330, 374, 2, 1>>, <<376, 376, 1, -121>>, <<377, 381, 2, 1>>,
      <<385, 385, 1, 210>>, <<386, 388, 2, 1>>, <<390, 390, 1, 206>>,
      <<391, 391, 1, 1>>, <<393, 394, 1, 205>>, <<395, 395, 1, 1>>,
      <<398, 398, 1, 79>>, <<399, 399, 1, 202>>, <<400, 400, 1, 203>>,
      <<401, 401, 1, 1>>, <<403, 403, 1, 205>>, <<404, 404, 1, 207>>,
      <<406, 406, 1, 211>>, <<407, 407, 1, 209>>, <<408, 408, 1, 1>>,
      <<412, 412, 1, 211>>, <<413, 413, 1, 213>>, <<415, 415, 1, 214>>,
      <<416, 420, 2, 1>>, <<422, 422, 1, 218>>, <<423, 423, 1, 1>>,
      <<425, 425, 1, 218>>, <<428, 428, 1, 1>>, <<430, 430, 1, 218>>,
      <<431, 431, 1, 1>>, <<433, 434, 1, 217>>, <<435, 437, 2, 1>>,
      <<439, 439, 1, 219>>, <<440, 440, 1, 1>>, <<444, 444, 1, 1>>,
      <<452, 452, 1, 2>>, <<453, 453, 1, 1>>, <<455, 455, 1, 2>>,
      <<456, 456, 1, 1>>, <<458, 458, 1, 2>>, <<459, 475, 2, 1>>,
      <<478, 494, 2, 1>>, <<497, 497, 1, 2>>, <<498, 500, 2, 1>>,
      <<502, 502, 1, -97>>, <<503, 503, 1, -56>>, <<504, 542, 2, 1>>,
      <<544, 544, 1, -130>>, <<546, 562, 2, 1>>, <<570, 570, 1, 10795>>,
      <<571, 571, 1, 1>>, <<573, 573, 1, -163>>, <<574, 574, 1, 10792>>,
      <<577, 577, 1, 1>>, <<579, 579, 1, -195>>, <<580, 580, 1, 69>>,
      <<581, 581, 1, 71>>, <<582, 590, 2, 1>>, <<880, 882, 2, 1>>,
      <<886, 886, 1, 1>>, <<895, 895, 1, 116>>, <<902, 902, 1, 38>>,
      <<904, 906, 1, 37>>, <<908, 908, 1, 64>>, <<910, 911, 1, 63>>,
      <<913, 929, 1, 32>>, <<931, 939, 1, 32>>, <<975, 975, 1, 8>>,
      <<984, 1006, 2, 1>>, <<1012, 1012, 1, -60>>, <<1015, 1015, 1, 1>>,
      <<1017, 1017, 1, -7>>, <<1018, 1018, 1, 1>>, <<1021, 1023, 1, -130>>,
      <<1024, 1039, 1, 80>>, <<1040, 1071, 1, 32>>, <<1120, 1152, 2, 1>>,
      <<1162, 1214, 2, 1>>, <<1216, 1216, 1, 15>>, <<1217, 1229, 2, 1>>,
      <<1232, 1326, 2, 1>>, <<1329, 1366, 1, 48>>, <<4256, 4293, 1, 7264>>,
      <<4295, 4295, 1, 7264>>, <<4301, 4301, 1, 7264>>, <<5024, 5103, 1, 38864>>,
      <<5104, 5109, 1, 8>>, <<7312, 7354, 1, -3008>>, <<7357, 7359, 1, -3008>>,
      <<7680, 7828, 2, 1>>, <<7838, 7838, 1, -7615>>, <<7840, 7934, 2, 1>>,
      <<7944, 7951, 1, -8>>, <<7960, 7965, 1, -8>>, <<7976, 7983, 1, -8>>,
      <<7992, 7999, 1, -8>>, <<8008, 8013, 1, -8>>, <<8025, 8031, 2, -8>>,
      <<8040, 8047, 1, -8>>, <<8072, 8079, 1, -8>>, <<8088, 8095, 1, -8>>,
      <<8104, 8111, 1, -8>>, <<8120, 8121, 1, -8>>, <<8122, 8123, 1, -74>>,
      <<8124, 8124, 1, -9>>, <<8136, 8139, 1, -86>>, <<8140, 8140, 1, -9>>,
      <<8152, 8153, 1, -8>>, <<8154, 8155, 1, -100>>, <<8168, 8169, 1, -8>>,
      <<8170, 8171, 1, -112>>, <<8172, 8172, 1, -7>>, <<8184, 8185, 1, -128>>,
      <<8186, 8187, 1, -126>>, <<8188, 8188, 1, -9>>, <<8486, 8486, 1, -7517>>,
      <<8490, 8490, 1, -8383>>, <<8491, 8491, 1, -8262>>, <<8498, 8498, 1, 28>>,
      <<8544, 8559, 1, 16>>, <<8579, 8579, 1, 1>>, <<9398, 9423, 1, 26>>,
      <<11264, 11311, 1, 48>>, <<11360, 11360, 1, 1>>, <<11362, 11362, 1, -10743>>,
      <<11363, 11363, 1, -3814>>, <<11364, 11364, 1, -10727>>, <<11367, 11371, 2, 1>>,
      <<11373, 11373, 1, -10780>>, <<11374, 11374, 1, -10749>>, <<11375, 11375, 1, -10783>>,
      <<11376, 11376, 1, -10782>>, <<11378, 11378, 1, 1>>, <<11381, 11381, 1, 1>>,
      <<11390, 11391, 1, -10815>>, <<11392, 11490, 2, 1>>, <<11499, 11501, 2, 1>>,
      <<11506, 11506, 1, 1>>, <<42560, 42604, 2, 1>>, <<42624, 42650, 2, 1>>,
      <<42786, 42798, 2, 1>>, <<42802, 42862, 2, 1>>, <<42873, 42875, 2, 1>>,
      <<42877, 42877, 1, -35332>>, <<42878, 42886, 2, 1>>, <<42891, 42891, 1, 1>>,
      <<42893, 42893, 1, -42280>>, <<42896, 42898, 2, 1>>, <<42902, 42920, 2, 1>>,
      <<42922, 42922, 1, -42308>>, <<42923, 42923, 1, -42319>>, <<42924, 42924, 1, -42315>>,
      <<42925, 42925, 1, -42305>>, <<42926, 42926, 1, -42308>>, <<42928, 42928, 1, -42258>>,
      <<42929, 42929, 1, -42282>>, <<42930, 42930, 1, -42261>>, <<42931, 42931, 1, 928>>,
      <<42932, 42946, 2, 1>>, <<42948, 42948, 1, -48>>, <<42949, 42949, 1, -42307>>,
      <<42950, 42950, 1, -35384>>, <<42951, 42953, 2, 1>>, <<42960, 42960, 1, 1>>,
      <<42966, 42968, 2, 1>>, <<42997, 42997, 1, 1>>, <<65313, 65338, 1, 32>>,
      <<66560, 66599, 1, 40>>, <<66736, 66771, 1, 40>>, <<66928, 66938, 1, 39>>,
      <<66940, 66954, 1, 39>>, <<66956, 66962, 1, 39>>, <<66964, 66965, 1, 39>>,
      <<68736, 68786, 1, 64>>, <<71840, 71871, 1, 32>>, <<93760, 93791, 1, 32>>,
      <<125184, 125217, 1, 34>>
    >>

\* The entries of LowerRanges that hold r (one or none)
LowerRange(r) ==
    {k \in 1..Len(LowerRanges) :
        /\ r \in LowerRanges[k][1]..LowerRanges[k][2]
        /\ (r - LowerRanges[k][1]) % LowerRanges[k][3] = 0}

\* unicode.ToLower
ToLowerRune(r) ==
    IF r < 128 THEN (IF r \in 65..90 THEN r + 32 ELSE r)
    ELSE IF LowerRange(r) = {} THEN r
    ELSE r + LowerRanges[CHOOSE k \in LowerRange(r) : TRUE][4]

\* strings.ToLower: rune by rune; a byte that is no valid UTF-8 becomes
\* U+FFFD
RECURSIVE ToLowerFrom(_, _)
ToLowerFrom(s, i) ==
    IF i > Len(s) THEN <<>>
    ELSE IF s[i] \notin HighBytes THEN
        <<Piece(ToLowerRune(Byte(s[i])))>> \o ToLowerFrom(s, i + 1)
    ELSE EncodeRune(ToLowerRune(DecodeRune(s, i).r))
            \o ToLowerFrom(s, i + DecodeRune(s, i).n)

ToLower(s) == ToLowerFrom(s, 1)

(***************************************************************************)
(* tools.go                                                                *)
(***************************************************************************)
Price == <<"$550">>
Savoy == <<"Savoy">>
ParkHyatt == <<"Park Hyatt">>
NoRecommendation(dest) ==
    <<"I'm sorry, I don't have a specific hotel recommendation for ">>
        \o dest \o <<".">>

london == <<"l","o","n","d","o","n">>
tokyo == <<"t","o","k","y","o">>

\* A flight tool with hidden state: the price depends on the calls made
\* before
SearchFlightsCounting(in) ==
    [out |-> <<"Found flights from ">> \o in.departure \o <<" to ">> \o in.arrival
             \o <<". A non-stop flight is available for ">>
             \o (IF \E i \in 1..Len(trace) : trace[i].tool = "searchFlights"
                 THEN <<"$", "5", "7", "5">> ELSE Price)
             \o <<".">>,
     err |-> <<>>]

\* The function searchFlightsTool registers: (result, error).
SearchFlights(in) ==
    [out |-> <<"Found flights from ">> \o in.departure \o <<" to ">> \o in.arrival
             \o <<". A non-stop flight is available for ">> \o Price \o <<".">>,
     err |-> <<>>]

SearchFlightsLog(in) ==
    <<"Tool called: searchFlights from ">> \o in.departure \o <<" to ">> \o in.arrival

\* The function suggestHotelTool registers: (result, error).
SuggestHotelExactCase(in) ==
    [out |-> CASE in.destination = london ->
                    <<"The ">> \o Savoy
                        \o <<" is a highly-rated luxury hotel with excellent reviews.">>
               [] in.destination = tokyo ->
                    <<"The ">> \o ParkHyatt
                        \o <<" is a great choice with stunning city views.">>
               [] OTHER -> NoRecommendation(in.destination),
     err |-> <<>>]

SuggestHotel(in) ==
    [out |-> CASE ToLower(in.destination) = london ->
                    <<"The ">> \o Savoy
                        \o <<" is a highly-rated luxury hotel with excellent reviews.">>
               [] ToLower(in.destination) = tokyo ->
                    <<"The ">> \o ParkHyatt
                        \o <<" is a great choice with stunning city views.">>
               [] OTHER -> NoRecommendation(in.destination),
     err |-> <<>>]

SuggestHotelLog(in) == <<"Tool called: suggestHotel in ">> \o in.destination

(***************************************************************************)
(* encoding/json as main.go uses it: json.NewDecoder(r.Body).Decode reads  *)
(* the first JSON value of the body (what follows it is not read) and      *)
(* stores it into a TravelAgentInput.                                      *)
(***************************************************************************)
Digits == {"0","1","2","3","4","5","6","7","8","9"}
HexDigits == Digits \cup {"a","b","c","d","e","f","A","B","C","D","E","F"}
IsSpace(c) == c \in {" ", "\t", "\r", "\n"}
\* The scanner's test in a string literal: c < 0x20
IsControl(c) == c \in ControlBytes

\* JSON values
JVal(k, s, items) == [k |-> k, s |-> s, items |-> items]
JNull == JVal("null", <<>>, <<>>)

\* Results of scanning a value that starts at some index
ScanOk(v, n) == [st |-> "ok", v |-> v, next |-> n, c |-> "", ctx |-> ""]
ScanErr(c, ctx) == [st |-> "syntax", v |-> JNull, next |-> 0, c |-> c, ctx |-> ctx]
ScanEOF == [st |-> "eof", v |-> JNull, next |-> 0, c |-> "", ctx |-> ""]

\* The first index from i on that holds no white space (Len(s) + 1: none)
SkipSpace(s, i) ==
    CHOOSE j \in i..(Len(s) + 1) :
        /\ \A k \in i..(j - 1) : IsSpace(s[k])
        /\ (j = Len(s) + 1 \/ ~IsSpace(s[j]))

\* The value of a hexadecimal digit
HexVal(c) ==
    CASE c \in Digits -> Byte(c) - 48
      [] c \in {"a","b","c","d","e","f"} -> Byte(c) - 87
      [] OTHER -> Byte(c) - 55

\* getu4: the number the escape \uXXXX at index i of s stands for, -1 when
\* what is at i is no such escape
Getu4(s, i) ==
    IF \/ i + 5 > Len(s)
       \/ s[i] # "\\"
       \/ s[i + 1] # "u"
       \/ \E k \in (i + 2)..(i + 5) : s[k] \notin HexDigits
    THEN -1
    ELSE HexVal(s[i + 2]) * 4096 + HexVal(s[i + 3]) * 256
            + HexVal(s[i + 4]) * 16 + HexVal(s[i + 5])

IsSurrogate(r) == r \in 55296..57343

\* utf16.DecodeRune
DecodeSurrogates(r1, r2) ==
    IF r1 \in 55296..56319 /\ r2 \in 56320..57343
    THEN (r1 - 55296) * 1024 + (r2 - 56320) + 65536
    ELSE RuneError

\* The escape \uXXXX at index i of s, as unquote reads it: the rune it
\* stands for and the number of bytes read.  One half of a surrogate pair
\* is read with the other half when that follows, as U+FFFD otherwise.
UnicodeChar(s, i) ==
    IF ~IsSurrogate(Getu4(s, i)) THEN [r |-> Getu4(s, i), n |-> 6]
    ELSE IF DecodeSurrogates(Getu4(s, i), Getu4(s, i + 6)) # RuneError
         THEN [r |-> DecodeSurrogates(Getu4(s, i), Getu4(s, i + 6)), n |-> 12]
    ELSE [r |-> RuneError, n |-> 6]

EscapedChar(e) ==
    CASE e = "n" -> "\n"
      [] e = "t" -> "\t"
      [] e = "r" -> "\r"
      [] e = "b" -> Piece(8)
      [] e = "f" -> "\f"
      [] OTHER -> e

\* A string literal whose opening quote is at i - 1; acc is what was read.
\* The scanner rejects a byte below 0x20 and a malformed escape; unquote
\* turns escapes into the bytes they stand for and bytes that are no valid
\* UTF-8 into U+FFFD.
RECURSIVE ScanString(_, _, _)
ScanString(s, i, acc) ==
    IF i > Len(s) THEN ScanEOF
    ELSE IF s[i] = "\"" THEN ScanOk(JVal("string", acc, <<>>), i + 1)
    ELSE IF IsControl(s[i]) THEN ScanErr(s[i], "in string literal")
    ELSE IF s[i] \in HighBytes THEN
         ScanString(s, i + DecodeRune(s, i).n, acc \o EncodeRune(DecodeRune(s, i).r))
    ELSE IF s[i] # "\\" THEN ScanString(s, i + 1, Append(acc, s[i]))
    ELSE IF i + 1 > Len(s) THEN ScanEOF
    ELSE IF s[i + 1] \in {"\"", "\\", "/", "b", "f", "n", "r", "t"}
         THEN ScanString(s, i + 2, Append(acc, EscapedChar(s[i + 1])))
    ELSE IF s[i + 1] # "u" THEN ScanErr(s[i + 1], "in string escape code")
    ELSE LET bad == {k \in (i + 2)..(i + 5) : k > Len(s) \/ s[k] \notin HexDigits} IN
         IF bad = {} THEN
            ScanString(s, i + UnicodeChar(s, i).n,
                       acc \o EncodeRune(UnicodeChar(s, i).r))
         ELSE LET k == CHOOSE m \in bad : \A n \in bad : m <= n IN
              IF k > Len(s) THEN ScanEOF
              ELSE ScanErr(s[k], "in \\u hexadecimal character escape")

\* A number: the scanner's states stateNeg, state0, state1, stateDot, stateDot0,
\* stateE, stateESign, stateE0.  The result is the index after the number.
RECURSIVE ScanNumber(_, _, _, _)
ScanNumber(s, start, i, state) ==
    LET atEnd == i > Len(s)
        c == IF atEnd THEN "" ELSE s[i]
        done == ScanOk(JVal("number", SubSeq(s, start, i - 1), <<>>), i)
    IN
    CASE state = "neg" ->
            IF atEnd THEN ScanEOF
            ELSE IF c = "0" THEN ScanNumber(s, start, i + 1, "0")
            ELSE IF c \in Digits THEN ScanNumber(s, start, i + 1, "1")
            ELSE ScanErr(c, "in numeric literal")
      [] state = "1" ->
            IF ~atEnd /\ c \in Digits THEN ScanNumber(s, start, i + 1, "1")
            ELSE ScanNumber(s, start, i, "0")
      [] state = "0" ->
            IF ~atEnd /\ c = "." THEN ScanNumber(s, start, i + 1, "dot")
            ELSE IF ~atEnd /\ c \in {"e", "E"} THEN ScanNumber(s, start, i + 1, "e")
            ELSE done
      [] state = "dot" ->
            IF atEnd THEN ScanEOF
            ELSE IF c \in Digits THEN ScanNumber(s, start, i + 1, "dot0")
            ELSE ScanErr(c, "after decimal point in numeric literal")
      [] state = "dot0" ->
            IF ~atEnd /\ c \in Digits THEN ScanNumber(s, start, i + 1, "dot0")
            ELSE IF ~atEnd /\ c \in {"e", "E"} THEN ScanNumber(s, start, i + 1, "e")
            ELSE done
      [] state = "e" ->
            IF ~atEnd /\ c \in {"+", "-"} THEN ScanNumber(s, start, i + 1, "esign")
            ELSE ScanNumber(s, start, i, "esign")
      [] state = "esign" ->
            IF atEnd THEN ScanEOF
            ELSE IF c \in Digits THEN ScanNumber(s, start, i + 1, "e0")
            ELSE ScanErr(c, "in exponent of numeric literal")
      [] OTHER -> \* "e0"
            IF ~atEnd /\ c \in Digits THEN ScanNumber(s, start, i + 1, "e0")
            ELSE done

\* true, false, null: s[i] is the first letter of word
ScanLiteral(s, i, word, name, v) ==
    LET bad == {k \in 2..Len(word) : i + k - 1 > Len(s) \/ s[i + k - 1] # word[k]} IN
    IF bad = {} THEN ScanOk(v, i + Len(word))
    ELSE LET k == CHOOSE m \in bad : \A n \in bad : m <= n IN
         IF i + k - 1 > Len(s) THEN ScanEOF
         ELSE ScanErr(s[i + k - 1],
                      "in literal " \o name \o " (expecting '" \o word[k] \o "')")

\* maxNestingDepth of the scanner: the objects and arrays that may be open
\* at once
MaxNestingDepth == 10000

RECURSIVE ScanValue(_, _, _), ScanElements(_, _, _, _), ScanMembers(_, _, _, _)
\* A value that starts at or after i0, inside depth open objects and arrays;
\* one that would be open beyond MaxNestingDepth is an error at its bracket
ScanValue(s, i0, depth) ==
    LET i == SkipSpace(s, i0) IN
    IF i > Len(s) THEN ScanEOF
    ELSE LET c == s[i] IN
         CASE c \in {"{", "["} /\ depth + 1 > MaxNestingDepth ->
                ScanErr(c, "exceeded max depth")
           [] c = "{" ->
                LET j == SkipSpace(s, i + 1) IN
                IF j > Len(s) THEN ScanEOF
                ELSE IF s[j] = "}" THEN ScanOk(JVal("object", <<>>, <<>>), j + 1)
                ELSE ScanMembers(s, j, <<>>, depth + 1)
           [] c = "[" ->
                LET j == SkipSpace(s, i + 1) IN
                IF j > Len(s) THEN ScanEOF
                ELSE IF s[j] = "]" THEN ScanOk(JVal("array", <<>>, <<>>), j + 1)
                ELSE ScanElements(s, j, <<>>, depth + 1)
           [] c = "\"" -> ScanString(s, i + 1, <<>>)
           [] c = "-" -> ScanNumber(s, i, i + 1, "neg")
           [] c = "0" -> ScanNumber(s, i, i + 1, "0")
           [] c \in Digits \ {"0"} -> ScanNumber(s, i, i + 1, "1")
           [] c = "t" -> ScanLiteral(s, i, <<"t","r","u","e">>, "true",
                                     JVal("bool", <<"true">>, <<>>))
           [] c = "f" -> ScanLiteral(s, i, <<"f","a","l","s","e">>, "false",
                                     JVal("bool", <<"false">>, <<>>))
           [] c = "n" -> ScanLiteral(s, i, <<"n","u","l","l">>, "null", JNull)
           [] OTHER -> ScanErr(c, "looking for beginning of value")

\* The elements of an array from i on, the array being the depth-th open
\* object or array; acc holds the elements read
ScanElements(s, i, acc, depth) ==
    LET e == ScanValue(s, i, depth) IN
    IF e.st # "ok" THEN e
    ELSE LET j == SkipSpace(s, e.next) IN
         IF j > Len(s) THEN ScanEOF
         ELSE IF s[j] = "," THEN ScanElements(s, j + 1, Append(acc, e.v), depth)
         ELSE IF s[j] = "]" THEN ScanOk(JVal("array", <<>>, Append(acc, e.v)), j + 1)
         ELSE ScanErr(s[j], "after array element")

\* The members of an object from i on (white space skipped by the caller
\* or here); acc holds the members read
ScanMembers(s, i0, acc, depth) ==
    LET i == SkipSpace(s, i0) IN
    IF i > Len(s) THEN ScanEOF
    ELSE IF s[i] # "\"" THEN ScanErr(s[i], "looking for beginning of object key string")
    ELSE LET key == ScanString(s, i + 1, <<>>) IN
         IF key.st # "ok" THEN key
         ELSE LET j == SkipSpace(s, key.next) IN
              IF j > Len(s) THEN ScanEOF
              ELSE IF s[j] # ":" THEN ScanErr(s[j], "after object key")
              ELSE LET val == ScanValue(s, j + 1, depth) IN
                   IF val.st # "ok" THEN val
                   ELSE LET m == SkipSpace(s, val.next)
                            mem == [key |-> key.v.s, val |-> val.v]
                        IN
                        IF m > Len(s) THEN ScanEOF
                        ELSE IF s[m] = "," THEN ScanMembers(s, m + 1, Append(acc, mem), depth)
                        ELSE IF s[m] = "}"
                             THEN ScanOk(JVal("object", <<>>, Append(acc, mem)), m + 1)
                        ELSE ScanErr(s[m], "after object key:value pair")

\* quoteChar of encoding/json's scanner: the byte c between single quotes,
\* written as strconv.Quote writes the rune of that value
QuoteChar(c) ==
    <<"'">>
        \o (CASE c = "'" -> <<"\\", "'">>
              [] c = "\"" -> <<"\"">>
              [] c = "\\" -> <<"\\", "\\">>
              [] c = Piece(7) -> <<"\\", "a">>
              [] c = Piece(8) -> <<"\\", "b">>
              [] c = "\f" -> <<"\\", "f">>
              [] c = "\n" -> <<"\\", "n">>
              [] c = "\r" -> <<"\\", "r">>
              [] c = "\t" -> <<"\\", "t">>
              [] c = Piece(11) -> <<"\\", "v">>
              [] c \in ControlBytes \/ c = Piece(127) -> <<"\\", "x">> \o Hex2(Byte(c))
              [] c \in HighBytes /\ Byte(c) \in (128..160) \cup {173} ->
                    <<"\\", "u", "0", "0">> \o Hex2(Byte(c))
              [] c \in HighBytes -> EncodeRune(Byte(c))
              [] OTHER -> <<c>>)
        \o <<"'">>

SyntaxErrorText(c, ctx) == <<"invalid character ">> \o QuoteChar(c) \o <<" ", ctx>>

\* The JSON name of the only field of TravelAgentInput (main.go, line 25)
UserQueryName == <<"u","s","e","r","Q","u","e","r","y">>

\* TravelAgentInput, and its zero value
TravelAgentInput(q) == [UserQuery |-> q]
ZeroInput == TravelAgentInput(<<>>)

\* The runes above 127 that are not the smallest rune of their case folding
\* orbit, as <<first, last, step, delta>>: every rune first, first + step,
\* .., last has itself + delta for the smallest rune of its orbit (the
\* orbits of unicode.SimpleFold: the C and S lines of CaseFolding.txt,
\* Unicode 14.0).
FoldRanges ==
    <<
      <<224, 246, 1, -32>>, <<248, 254, 1, -32>>, <<257, 303, 2, -1>>,
      <<307, 311, 2, -1>>, <<314, 328, 2, -1>>, <<331, 375, 2, -1>>,
      <<376, 376, 1, -121>>, <<378, 382, 2, -1>>, <<383, 383, 1, -300>>,
      <<387, 389, 2, -1>>, <<392, 392, 1, -1>>, <<396, 396, 1, -1>>,
      <<402, 402, 1, -1>>, <<409, 409, 1, -1>>, <<417, 421, 2, -1>>,
      <<424, 424, 1, -1>>, <<429, 429, 1, -1>>, <<432, 432, 1, -1>>,
      <<436, 438, 2, -1>>, <<441, 441, 1, -1>>, <<445, 445, 1, -1>>,
      <<453, 453, 1, -1>>, <<454, 454, 1, -2>>, <<456, 456, 1, -1>>,
      <<457, 457, 1, -2>>, <<459, 459, 1, -1>>, <<460, 460, 1, -2>>,
      <<462, 476, 2, -1>>, <<477, 477, 1, -79>>, <<479, 495, 2, -1>>,
      <<498, 498, 1, -1>>, <<499, 499, 1, -2>>, <<501, 501, 1, -1>>,
      <<502, 502, 1, -97>>, <<503, 503, 1, -56>>, <<505, 543, 2, -1>>,
      <<544, 544, 1, -130>>, <<547, 563, 2, -1>>, <<572, 572, 1, -1>>,
      <<573, 573, 1, -163>>, <<578, 578, 1, -1>>, <<579, 579, 1, -195>>,
      <<583, 591, 2, -1>>, <<595, 595, 1, -210>>, <<596, 596, 1, -206>>,
      <<598, 599, 1, -205>>, <<601, 601, 1, -202>>, <<603, 603, 1, -203>>,
      <<608, 608, 1, -205>>, <<611, 611, 1, -207>>, <<616, 616, 1, -209>>,
      <<617, 617, 1, -211>>, <<623, 623, 1, -211>>, <<626, 626, 1, -213>>,
      <<629, 629, 1, -214>>, <<640, 640, 1, -218>>, <<643, 643, 1, -218>>,
      <<648, 648, 1, -218>>, <<649, 649, 1, -69>>, <<650, 651, 1, -217>>,
      <<652, 652, 1, -71>>, <<658, 658, 1, -219>>, <<881, 883, 2, -1>>,
      <<887, 887, 1, -1>>, <<921, 921, 1, -84>>, <<924, 924, 1, -743>>,
      <<940, 940, 1, -38>>, <<941, 943, 1, -37>>, <<945, 952, 1, -32>>,
      <<953, 953, 1, -116>>, <<954, 955, 1, -32>>, <<956, 956, 1, -775>>,
      <<957, 961, 1, -32>>, <<962, 962, 1, -31>>, <<963, 971, 1, -32>>,
      <<972, 972, 1, -64>>, <<973, 974, 1, -63>>, <<976, 976, 1, -62>>,
      <<977, 977, 1, -57>>, <<981, 981, 1, -47>>, <<982, 982, 1, -54>>,
      <<983, 983, 1, -8>>, <<985, 1007, 2, -1>>, <<1008, 1008, 1, -86>>,
      <<1009, 1009, 1, -80>>, <<1011, 1011, 1, -116>>, <<1012, 1012, 1, -92>>,
      <<1013, 1013, 1, -96>>, <<1016, 1016, 1, -1>>, <<1017, 1017, 1, -7>>,
      <<1019, 1019, 1, -1>>, <<1021, 1023, 1, -130>>, <<1072, 1103, 1, -32>>,
      <<1104, 1119, 1, -80>>, <<1121, 1153, 2, -1>>, <<1163, 1215, 2, -1>>,
      <<1218, 1230, 2, -1>>, <<1231, 1231, 1, -15>>, <<1233, 1327, 2, -1>>,
      <<1377, 1414, 1, -48>>, <<5112, 5117, 1, -8>>, <<7296, 7296, 1, -6254>>,
      <<7297, 7297, 1, -6253>>, <<7298, 7298, 1, -6244>>, <<7299, 7300, 1, -6242>>,
      <<7301, 7301, 1, -6243>>, <<7302, 7302, 1, -6236>>, <<7303, 7303, 1, -6181>>,
      <<7312, 7354, 1, -3008>>, <<7357, 7359, 1, -3008>>, <<7681, 7829, 2, -1>>,
      <<7835, 7835, 1, -59>>, <<7838, 7838, 1, -7615>>, <<7841, 7935, 2, -1>>,
      <<7944, 7951, 1, -8>>, <<7960, 7965, 1, -8>>, <<7976, 7983, 1, -8>>,
      <<7992, 7999, 1, -8>>, <<8008, 8013, 1, -8>>, <<8025, 8031, 2, -8>>,
      <<8040, 8047, 1, -8>>, <<8072, 8079, 1, -8>>, <<8088, 8095, 1, -8>>,
      <<8104, 8111, 1, -8>>, <<8120, 8121, 1, -8>>, <<8122, 8123, 1, -74>>,
      <<8124, 8124, 1, -9>>, <<8126, 8126, 1, -7289>>, <<8136, 8139, 1, -86>>,
      <<8140, 8140, 1, -9>>, <<8152, 8153, 1, -8>>, <<8154, 8155, 1, -100>>,
      <<8168, 8169, 1, -8>>, <<8170, 8171, 1, -112>>, <<8172, 8172, 1, -7>>,
      <<8184, 8185, 1, -128>>, <<8186, 8187, 1, -126>>, <<8188, 8188, 1, -9>>,
      <<8486, 8486, 1, -7549>>, <<8490, 8490, 1, -8415>>, <<8491, 8491, 1, -8294>>,
      <<8526, 8526, 1, -28>>, <<8560, 8575, 1, -16>>, <<8580, 8580, 1, -1>>,
      <<9424, 9449, 1, -26>>, <<11312, 11359, 1, -48>>, <<11361, 11361, 1, -1>>,
      <<11362, 11362, 1, -10743>>, <<11363, 11363, 1, -3814>>, <<11364, 11364, 1, -10727>>,
      <<11365, 11365, 1, -10795>>, <<11366, 11366, 1, -10792>>, <<11368, 11372, 2, -1>>,
      <<11373, 11373, 1, -10780>>, <<11374, 11374, 1, -10749>>, <<11375, 11375, 1, -10783>>,
      <<11376, 11376, 1, -10782>>, <<11379, 11379, 1, -1>>, <<11382, 11382, 1, -1>>,
      <<11390, 11391, 1, -10815>>, <<11393, 11491, 2, -1>>, <<11500, 11502, 2, -1>>,
      <<11507, 11507, 1, -1>>, <<11520, 11557, 1, -7264>>, <<11559, 11559, 1, -7264>>,
      <<11565, 11565, 1, -7264>>, <<42561, 42569, 2, -1>>, <<42570, 42570, 1, -35266>>,
      <<42571, 42571, 1, -35267>>, <<42573, 42605, 2, -1>>, <<42625, 42651, 2, -1>>,
      <<42787, 42799, 2, -1>>, <<42803, 42863, 2, -1>>, <<42874, 42876, 2, -1>>,
      <<42877, 42877, 1, -35332>>, <<42879, 42887, 2, -1>>, <<42892, 42892, 1, -1>>,
      <<42893, 42893, 1, -42280>>, <<42897, 42899, 2, -1>>, <<42903, 42921, 2, -1>>,
      <<42922, 42922, 1, -42308>>, <<42923, 42923, 1, -42319>>, <<42924, 42924, 1, -42315>>,
      <<42925, 42925, 1, -42305>>, <<42926, 42926, 1, -42308>>, <<42928, 42928, 1, -42258>>,
      <<42929, 42929, 1, -42282>>, <<42930, 42930, 1, -42261>>, <<42933, 42947, 2, -1>>,
      <<42948, 42948, 1, -48>>, <<42949, 42949, 1, -42307>>, <<42950, 42950, 1, -35384>>,
      <<42952, 42954, 2, -1>>, <<42961, 42961, 1, -1>>, <<42967, 42969, 2, -1>>,
      <<42998, 42998, 1, -1>>, <<43859, 43859, 1, -928>>, <<43888, 43967, 1, -38864>>,
      <<65345, 65370, 1, -32>>, <<66600, 66639, 1, -40>>, <<66776, 66811, 1, -40>>,
      <<66967, 66977, 1, -39>>, <<66979, 66993, 1, -39>>, <<66995, 67001, 1, -39>>,
      <<67003, 67004, 1, -39>>, <<68800, 68850, 1, -64>>, <<71872, 71903, 1, -32>>,
      <<93792, 93823, 1, -32>>, <<125218, 125251, 1, -34>>
    >>

\* The entries of FoldRanges that hold r (one or none)
FoldRange(r) ==
    {k \in 1..Len(FoldRanges) :
        /\ r \in FoldRanges[k][1]..FoldRanges[k][2]
        /\ (r - FoldRanges[k][1]) % FoldRanges[k][3] = 0}

\* foldRune for a rune above 127: the smallest rune of its case folding
\* orbit (U+017F gives S, U+212A gives K)
FoldRune(r) ==
    IF FoldRange(r) = {} THEN r
    ELSE r + FoldRanges[CHOOSE k \in FoldRange(r) : TRUE][4]

\* foldName: ASCII letters in upper case, every other rune folded
RECURSIVE FoldNameFrom(_, _)
FoldNameFrom(s, i) ==
    IF i > Len(s) THEN <<>>
    ELSE IF s[i] \notin HighBytes THEN
        (IF Byte(s[i]) \in 97..122 THEN <<Piece(Byte(s[i]) - 32)>> ELSE <<s[i]>>)
            \o FoldNameFrom(s, i + 1)
    ELSE EncodeRune(FoldRune(DecodeRune(s, i).r))
            \o FoldNameFrom(s, i + DecodeRune(s, i).n)

FoldName(s) == FoldNameFrom(s, 1)

\* A key names the field if it equals the name, or folds to what the name
\* folds to
MatchesField(key) == key = UserQueryName \/ FoldName(key) = FoldName(UserQueryName)

TypeErrorText(kind, where) == <<"json: cannot unmarshal ", kind, where>>
IntoValue == " into Go value of type main.TravelAgentInput"
IntoField == " into Go struct field TravelAgentInput.userQuery of type string"

\* The members of an object stored into a TravelAgentInput, in order: a
\* string sets the field, null leaves it, any other value is a type error
\* (the first is kept, decoding goes on); unknown keys are skipped.
RECURSIVE StoreMembers(_, _, _, _)
StoreMembers(items, i, in, err) ==
    IF i > Len(items) THEN [input |-> in, err |-> err]
    ELSE LET m == items[i] IN
         IF ~MatchesField(m.key) THEN StoreMembers(items, i + 1, in, err)
         ELSE IF m.val.k = "string"
              THEN StoreMembers(items, i + 1, TravelAgentInput(m.val.s), err)
         ELSE IF m.val.k = "null" THEN StoreMembers(items, i + 1, in, err)
         ELSE StoreMembers(items, i + 1, in,
                           IF err = <<>> THEN TypeErrorText(m.val.k, IntoField)
                           ELSE err)

\* A scanned value stored into `in`; err = <<>> is Go's nil error
Unmarshal(v, in) ==
    CASE v.k = "object" -> StoreMembers(v.items, 1, in, <<>>)
      [] v.k = "null" -> [input |-> in, err |-> <<>>]
      [] OTHER -> [input |-> in, err |-> TypeErrorText(v.k, IntoValue)]

\* json.NewDecoder(body).Decode(&in)
Decode(b, in) ==
    LET r == ScanValue(b, 1, 0) IN
    CASE r.st = "eof" ->
            [input |-> in,
             err |-> IF SkipSpace(b, 1) > Len(b) THEN <<"EOF">>
                     ELSE <<"unexpected EOF">>]
      [] r.st = "syntax" -> [input |-> in, err |-> SyntaxErrorText(r.c, r.ctx)]
      [] OTHER -> Unmarshal(r.v, in)

\* A byte below 128 as json.Encoder writes it in a string (HTML escaping
\* on, the default; \b and \f as encoding/json of Go 1.22 and later writes
\* them).  A piece of literal text of the source holds no character that is
\* escaped and is written as it is.
EncodeChar(c) ==
    CASE ~IsByte(c) -> <<c>>
      [] c = "\"" -> <<"\\", "\"">>
      [] c = "\\" -> <<"\\", "\\">>
      [] c = Piece(8) -> <<"\\", "b">>
      [] c = "\f" -> <<"\\", "f">>
      [] c = "\n" -> <<"\\", "n">>
      [] c = "\r" -> <<"\\", "r">>
      [] c = "\t" -> <<"\\", "t">>
      [] c \in ControlBytes \cup {"<", ">", "&"} ->
            <<"\\", "u", "0", "0">> \o Hex2(Byte(c))
      [] OTHER -> <<c>>

\* The bytes of s from i on: a byte that is no valid UTF-8 is written as
\* \\ufffd, U+2028 and U+2029 as escapes, any other rune above 127 as it is
RECURSIVE EncodeChars(_, _)
EncodeChars(s, i) ==
    IF i > Len(s) THEN <<>>
    ELSE IF s[i] \notin HighBytes THEN EncodeChar(s[i]) \o EncodeChars(s, i + 1)
    ELSE (IF ~DecodeRune(s, i).ok THEN <<"\\", "u", "f", "f", "f", "d">>
          ELSE IF DecodeRune(s, i).r \in {8232, 8233}
               THEN <<"\\", "u">> \o Hex4(DecodeRune(s, i).r)
          ELSE SubSeq(s, i, i + DecodeRune(s, i).n - 1))
            \o EncodeChars(s, i + DecodeRune(s, i).n)

EncodeString(s) == <<"\"">> \o EncodeChars(s, 1) \o <<"\"">>

ResultName == <<"r","e","s","u","l","t">>

\* json.NewEncoder(w).Encode(map[string]string{"result": result})
EncodeResultRaw(result) ==
    <<"{">> \o <<"\"">> \o ResultName \o <<"\"">> \o <<":">>
        \o <<"\"">> \o result \o <<"\"">> \o <<"}", "\n">>

EncodeResult(result) ==
    <<"{">> \o EncodeString(ResultName) \o <<":">> \o EncodeString(result)
        \o <<"}", "\n">>

(***************************************************************************)
(* prompts.go                                                              *)
(***************************************************************************)
\* sysPrompt: the raw string literal with its line breaks and tabs, one
\* piece per line and one per run of line breaks and indentation
SysPrompt ==
    <<"You are a professional and courteous travel agent assistant.",
      "\n\t\t\t",
      "You have access to the following tools:",
      "\n\t\t\t",
      "- searchFlights: to find flights between two cities.",
      "\n\t\t\t",
      "- suggestHotel: to recommend a hotel in a specific city.",
      "\n\n\t\t\t",
      "Your goal is to fulfill the user's travel request by intelligently using the tools at your disposal.",
      "\n\n\t\t\t",
      "- If the user asks for a flight, use the searchFlights tool.",
      "\n\t\t\t",
      "- If the user asks for a hotel, use the suggestHotel tool.",
      "\n\t\t\t",
      "- If the user asks for both, you should call both tools sequentially or in parallel as needed.",
      "\n\t\t\t",
      "- If you are missing any information (e.g., a city or destination), you MUST ask the user for it.",
      "\n\t\t\t",
      "- If the user's request is not related to travel, respond politely that you can only help with travel-related queries.">>

RequestPrefix == <<"The user's request is: ">>

\* The function given to ai.WithPromptFn
PromptFn(in) == RequestPrefix \o in.UserQuery

ToolNames == <<"searchFlights", "suggestHotel">>

\* What agentPrompt.Execute(ctx, ai.WithInput(in)) hands to the model
ModelRequest(in) == [system |-> SysPrompt, user |-> PromptFn(in), tools |-> ToolNames]

(***************************************************************************)
(* main.go: the flow and the handler                                       *)
(***************************************************************************)
StatusOK == 200
StatusBadRequest == 400
StatusMethodNotAllowed == 405
StatusInternalServerError == 500

MethodPost == "POST"

\* http.Error(w, msg, code)
HttpError(msg, code) ==
    [status |-> code, contentType |-> "text/plain; charset=utf-8",
     body |-> msg \o <<"\n">>]

\* The function of travelAgentFlow, given what agentPrompt.Execute returned
FlowFn(exec) ==
    IF exec.err # <<>> THEN [result |-> <<>>, err |-> exec.err]
    ELSE [result |-> exec.text, err |-> <<>>]

\* The handler after travelAgentFlow.Run returned `run`
Respond(run) ==
    IF run.err # <<>> THEN HttpError(run.err, StatusInternalServerError)
    ELSE [status |-> StatusOK, contentType |-> "application/json",
          body |-> EncodeResult(run.result)]

NoOutcome == [text |-> <<>>, err |-> <<>>]

\* A request reaches the handler
Arrive(r, m, b) ==
    /\ proc = "serving"
    /\ pc[r] = "Idle"
    /\ pc' = [pc EXCEPT ![r] = "Received"]
    /\ method' = [method EXCEPT ![r] = m]
    /\ body' = [body EXCEPT ![r] = b]
    /\ UNCHANGED <<mainVars, input, decoded, calls, toolOut, outcome, resp, logged, trace>>

\* main.go 93-96
CheckMethodAnyMethod(r) ==
    /\ pc[r] = "Received"
    /\ pc' = [pc EXCEPT ![r] = "MethodChecked"]
    /\ UNCHANGED <<mainVars, method, body, input, decoded, calls, toolOut, outcome,
                   resp, logged, trace>>

CheckMethodNoReturn(r) ==
    /\ pc[r] = "Received"
    /\ pc' = [pc EXCEPT ![r] = "MethodChecked"]
    /\ resp' = [resp EXCEPT ![r] =
                  IF method[r] # MethodPost
                  THEN Append(@, HttpError(<<"Method not allowed">>, StatusMethodNotAllowed))
                  ELSE @]
    /\ UNCHANGED <<mainVars, method, body, input, decoded, calls, toolOut, outcome,
                   logged, trace>>

CheckMethod(r) ==
    /\ pc[r] = "Received"
    /\ IF method[r] # MethodPost
       THEN /\ resp' = [resp EXCEPT ![r] =
                          Append(@, HttpError(<<"Method not allowed">>,
                                              StatusMethodNotAllowed))]
            /\ pc' = [pc EXCEPT ![r] = "FailureExit"]
       ELSE /\ pc' = [pc EXCEPT ![r] = "MethodChecked"]
            /\ UNCHANGED resp
    /\ UNCHANGED <<mainVars, method, body, input, decoded, calls, toolOut, outcome,
                   logged, trace>>

\* main.go 100-104
ParseBodyIgnoreError(r) ==
    /\ pc[r] = "MethodChecked"
    /\ LET d == Decode(body[r], ZeroInput) IN
       /\ input' = [input EXCEPT ![r] = d.input]
       /\ decoded' = [decoded EXCEPT ![r] = @ + 1]
       /\ pc' = [pc EXCEPT ![r] = "BodyParsed"]
       /\ UNCHANGED resp
    /\ UNCHANGED <<mainVars, method, body, calls, toolOut, outcome, logged, trace>>

ParseBodyShared(r) ==
    /\ pc[r] = "MethodChecked"
    /\ LET d == Decode(body[r], ZeroInput) IN
       /\ input' = [x \in Reqs |-> d.input]
       /\ decoded' = [decoded EXCEPT ![r] = @ + 1]
       /\ IF d.err # <<>>
          THEN /\ resp' = [resp EXCEPT ![r] =
                             Append(@, HttpError(<<"Invalid JSON: ">> \o d.err,
                                                 StatusBadRequest))]
               /\ pc' = [pc EXCEPT ![r] = "FailureExit"]
          ELSE /\ pc' = [pc EXCEPT ![r] = "BodyParsed"]
               /\ UNCHANGED resp
    /\ UNCHANGED <<mainVars, method, body, calls, toolOut, outcome, logged, trace>>

ParseBody(r) ==
    /\ pc[r] = "MethodChecked"
    /\ LET d == Decode(body[r], ZeroInput) IN
       /\ input' = [input EXCEPT ![r] = d.input]
       /\ decoded' = [decoded EXCEPT ![r] = @ + 1]
       /\ IF d.err # <<>>
          THEN /\ resp' = [resp EXCEPT ![r] =
                             Append(@, HttpError(<<"Invalid JSON: ">> \o d.err,
                                                 StatusBadRequest))]
               /\ pc' = [pc EXCEPT ![r] = "FailureExit"]
          ELSE /\ pc' = [pc EXCEPT ![r] = "BodyParsed"]
               /\ UNCHANGED resp
    /\ UNCHANGED <<mainVars, method, body, calls, toolOut, outcome, logged, trace>>

\* main.go 108, 56-61: the flow runs and executes the prompt
Delegate(r) ==
    /\ pc[r] = "BodyParsed"
    /\ calls' = [calls EXCEPT ![r] = Append(@, ModelRequest(input[r]))]
    /\ pc' = [pc EXCEPT ![r] = "Delegated"]
    /\ UNCHANGED <<mainVars, method, body, input, decoded, toolOut, outcome, resp,
                   logged, trace>>

\* The collaborator calls searchFlights while it works on request r
CallSearchFlights(r, in) ==
    /\ pc[r] = "Delegated"
    /\ Len(trace) < MaxToolCalls
    /\ logged' = Append(logged, SearchFlightsLog(in))
    /\ trace' = Append(trace, [tool |-> "searchFlights", in |-> in,
                               res |-> SearchFlights(in)])
    /\ toolOut' = [toolOut EXCEPT ![r] = Append(@, SearchFlights(in).out)]
    /\ UNCHANGED <<mainVars, pc, method, body, input, decoded, calls, outcome, resp>>

\* The collaborator calls suggestHotel while it works on request r
CallSuggestHotel(r, in) ==
    /\ pc[r] = "Delegated"
    /\ Len(trace) < MaxToolCalls
    /\ logged' = Append(logged, SuggestHotelLog(in))
    /\ trace' = Append(trace, [tool |-> "suggestHotel", in |-> in,
                               res |-> SuggestHotel(in)])
    /\ toolOut' = [toolOut EXCEPT ![r] = Append(@, SuggestHotel(in).out)]
    /\ UNCHANGED <<mainVars, pc, method, body, input, decoded, calls, outcome, resp>>

\* agentPrompt.Execute returns a response with text t: main.go 67, 114-118
Succeed(r, t) ==
    /\ pc[r] = "Delegated"
    /\ LET exec == [text |-> t, err |-> <<>>] IN
       /\ outcome' = [outcome EXCEPT ![r] = exec]
       /\ resp' = [resp EXCEPT ![r] = Append(@, Respond(FlowFn(exec)))]
    /\ pc' = [pc EXCEPT ![r] = "ResponseSent"]
    /\ UNCHANGED <<mainVars, method, body, input, decoded, calls, toolOut, logged, trace>>

\* agentPrompt.Execute returns the error e: main.go 62-64, 109-112
FailRetry(r, e) ==
    /\ pc[r] = "Delegated"
    /\ LET exec == [text |-> <<>>, err |-> e] IN
       /\ outcome' = [outcome EXCEPT ![r] = exec]
       /\ IF Len(calls[r]) < 2
          THEN /\ pc' = [pc EXCEPT ![r] = "BodyParsed"]
               /\ UNCHANGED resp
          ELSE /\ pc' = [pc EXCEPT ![r] = "FailureExit"]
               /\ resp' = [resp EXCEPT ![r] = Append(@, Respond(FlowFn(exec)))]
    /\ UNCHANGED <<mainVars, method, body, input, decoded, calls, toolOut, logged, trace>>

Fail(r, e) ==
    /\ pc[r] = "Delegated"
    /\ LET exec == [text |-> <<>>, err |-> e] IN
       /\ outcome' = [outcome EXCEPT ![r] = exec]
       /\ resp' = [resp EXCEPT ![r] = Append(@, Respond(FlowFn(exec)))]
    /\ pc' = [pc EXCEPT ![r] = "FailureExit"]
    /\ UNCHANGED <<mainVars, method, body, input, decoded, calls, toolOut, logged, trace>>

(***************************************************************************)
(* main.go: start-up                                                       *)
(***************************************************************************)
DefaultPort == "8080"
Loopback == "127.0.0.1"
NoAddr == [host |-> "", port |-> ""]

\* main.go 41-119: Genkit, the prompt, the flow and the route are set up
Configure ==
    /\ proc = "init"
    /\ proc' = "configured"
    /\ UNCHANGED <<portEnv, busy, addr, gatewayVars, logged, trace>>

\* main.go 122-125
ChoosePort ==
    /\ proc = "configured"
    /\ addr' = [host |-> Loopback,
                port |-> IF portEnv = "" THEN DefaultPort ELSE portEnv]
    /\ proc' = "portChosen"
    /\ UNCHANGED <<portEnv, busy, gatewayVars, logged, trace>>

\* The error net.Listen returns when the address is taken
BindError(a) ==
    <<"listen tcp ", a.host, ":", a.port, ": bind: address already in use">>

\* main.go 128-129: server.Start binds the one address it is given; when
\* the bind fails it returns the error, which log.Fatal logs before it
\* ends the process
Listen ==
    /\ proc = "portChosen"
    /\ logged' = IF addr.port \in busy
                 THEN logged \o << <<"Starting Genkit server on port ", addr.port>>,
                                   BindError(addr) >>
                 ELSE Append(logged, <<"Starting Genkit server on port ", addr.port>>)
    /\ proc' = IF addr.port \in busy THEN "exited" ELSE "serving"
    /\ UNCHANGED <<portEnv, busy, addr, gatewayVars, trace>>

(***************************************************************************)
(* Inputs                                                                  *)
(***************************************************************************)
Methods == {"POST", "GET"}

\* A string as a client writes it into a JSON document: a quote and a
\* backslash after a backslash, "<" and the bytes below 0x20 as \u00XX, every
\* other byte as it is
RECURSIVE ClientQuoteChars(_)
ClientQuoteChars(s) ==
    IF s = <<>> THEN <<>>
    ELSE (IF Head(s) \in {"\"", "\\"} THEN <<"\\", Head(s)>>
          ELSE IF Head(s) \in ControlBytes \cup {"<"}
               THEN <<"\\", "u", "0", "0">> \o Hex2(Byte(Head(s)))
          ELSE <<Head(s)>>)
            \o ClientQuoteChars(Tail(s))
ClientQuote(s) == <<"\"">> \o ClientQuoteChars(s) \o <<"\"">>

\* {"<key>":<raw value>}
ObjectBody(key, raw) == <<"{">> \o ClientQuote(key) \o <<":">> \o raw \o <<"}">>

\* {"userQuery":"<q>"}
ValidBody(q) == ObjectBody(UserQueryName, ClientQuote(q))

\* One query: ASCII letters, characters a client escapes, the two bytes of
\* U+00E9 and a line feed
Queries == { <<"N","Y","C","\"","\\","<","xc3","xa9","\n">> }

EmptyObjectBody == <<"{", "}">>
OtherFieldBody == ObjectBody(<<"q">>, ClientQuote(<<"a">>))
NumberQueryBody == ObjectBody(UserQueryName, <<"5">>)
TruncatedBody == <<"{">> \o ClientQuote(UserQueryName) \o <<":">>
UnquotedKeyBody == <<"{">> \o UserQueryName \o <<":">> \o ClientQuote(<<"a">>) \o <<"}">>
NoBody == <<>>
ArrayBody == <<"[", "]">>

MissingFieldBodies == {EmptyObjectBody, OtherFieldBody}
UndecodableBodies == {NumberQueryBody, TruncatedBody, UnquotedKeyBody, NoBody, ArrayBody}

Bodies == {ValidBody(q) : q \in Queries} \cup MissingFieldBodies \cup UndecodableBodies

\* What the collaborator answers with, besides what a tool returned to it
\* (valid UTF-8, as the text of a model response is)
Texts == { <<"o","k","<","\"","\\","xc3","xa9","\f","x01">> }
ModelErrors == { <<"model unavailable">> }

NYC == <<"N","Y","C">>
LAX == <<"L","A","X">>
London == <<"L","o","n","d","o","n">>

\* The tool calls the collaborator makes while it serves requests
AgentFlightInputs == {[departure |-> NYC, arrival |-> LAX]}
AgentHotelInputs == {[destination |-> London]}

ToUpperChar(c) == IF Byte(c) \in 97..122 THEN Piece(Byte(c) - 32) ELSE c

\* s with one letter in upper case: its first letter, or one inside
OneUpper(s) ==
    {[i \in 1..Len(s) |-> IF i = k THEN ToUpperChar(s[i]) ELSE s[i]] :
        k \in {1, Len(s) - 2}}
AllUpper(s) == [i \in 1..Len(s) |-> ToUpperChar(s[i])]
SomeCases(s) == {s, AllUpper(s)} \cup OneUpper(s)

\* The inputs the tools are exercised on
Cities == {<<>>, NYC, LAX}
FlightInputs == [departure : Cities, arrival : Cities]
OtherDestinations ==
    { <<>>, <<"p","a","r","i","s">>, <<"l","o","n","d","o">>,
      <<"l","o","n","d","o","n","s">>, <<" ">> \o london, tokyo \o <<" ">>,
      <<"t","o","k","i","o">> }
\* "tokyo" with the Kelvin sign U+212A for its k, whose lower case is k
KelvinTokyo == <<"t","o","xe2","x84","xaa","y","o">>
\* Destinations that are not ASCII: U+00C9 before "london", "london" with
\* U+0130 for an o, a byte that is no UTF-8
NonAsciiDestinations ==
    { KelvinTokyo, <<"xc3","x89">> \o london,
      <<"l","xc4","xb0","n","d","o","n">>, <<"l","o","n","d","o","n","xff">> }
Destinations ==
    SomeCases(london) \cup SomeCases(tokyo) \cup OtherDestinations
        \cup NonAsciiDestinations
HotelInputs == [destination : Destinations]

(***************************************************************************)
(* Specifications                                                          *)
(***************************************************************************)
\* The process as main() starts it
InitMain ==
    /\ proc = "init"
    /\ portEnv \in {"", "8080", "9090", "3000"}
    /\ busy \in SUBSET {"8080", "9090", "3000"}
    /\ addr = NoAddr
    /\ pc = [r \in Reqs |-> "Idle"]
    /\ method = [r \in Reqs |-> ""]
    /\ body = [r \in Reqs |-> <<>>]
    /\ input = [r \in Reqs |-> ZeroInput]
    /\ decoded = [r \in Reqs |-> 0]
    /\ calls = [r \in Reqs |-> <<>>]
    /\ toolOut = [r \in Reqs |-> <<>>]
    /\ outcome = [r \in Reqs |-> NoOutcome]
    /\ resp = [r \in Reqs |-> <<>>]
    /\ logged = <<>>
    /\ trace = <<>>

NextMain == Configure \/ ChoosePort \/ Listen

SpecMain == InitMain /\ [][NextMain]_vars

\* The process serving: started with PORT unset and the default port free
Init ==
    /\ proc = "serving"
    /\ portEnv = ""
    /\ busy = {}
    /\ addr = [host |-> Loopback, port |-> DefaultPort]
    /\ pc = [r \in Reqs |-> "Idle"]
    /\ method = [r \in Reqs |-> ""]
    /\ body = [r \in Reqs |-> <<>>]
    /\ input = [r \in Reqs |-> ZeroInput]
    /\ decoded = [r \in Reqs |-> 0]
    /\ calls = [r \in Reqs |-> <<>>]
    /\ toolOut = [r \in Reqs |-> <<>>]
    /\ outcome = [r \in Reqs |-> NoOutcome]
    /\ resp = [r \in Reqs |-> <<>>]
    /\ logged = << <<"Starting Genkit server on port ", DefaultPort>> >>
    /\ trace = <<>>

Next ==
    \E r \in Reqs :
        \/ \E m \in Methods, b \in Bodies : Arrive(r, m, b)
        \/ CheckMethod(r)
        \/ ParseBody(r)
        \/ Delegate(r)
        \/ \E in \in AgentFlightInputs : CallSearchFlights(r, in)
        \/ \E in \in AgentHotelInputs : CallSuggestHotel(r, in)
        \/ \E t \in Texts \cup {toolOut[r][i] : i \in 1..Len(toolOut[r])} : Succeed(r, t)
        \/ \E e \in ModelErrors : Fail(r, e)

Spec == Init /\ [][Next]_vars

\* The tools run on their own (as a tool runner invokes them)
InvokeSearchFlights(in) ==
    /\ Len(trace) < MaxInvocations
    /\ logged' = Append(logged, SearchFlightsLog(in))
    /\ trace' = Append(trace, [tool |-> "searchFlights", in |-> in,
                               res |-> SearchFlights(in)])
    /\ UNCHANGED <<mainVars, gatewayVars>>

InvokeSuggestHotel(in) ==
    /\ Len(trace) < MaxInvocations
    /\ logged' = Append(logged, SuggestHotelLog(in))
    /\ trace' = Append(trace, [tool |-> "suggestHotel", in |-> in,
                               res |-> SuggestHotel(in)])
    /\ UNCHANGED <<mainVars, gatewayVars>>

NextTools ==
    \/ \E in \in FlightInputs : InvokeSearchFlights(in)
    \/ \E in \in HotelInputs : InvokeSuggestHotel(in)

SpecTools == Init /\ [][NextTools]_vars

(***************************************************************************)
(* Properties                                                              *)
(***************************************************************************)
\* The pieces of literal text that the strings of the model are made of,
\* each with its bytes
Spelling ==
    <<
      << "$550",
         <<"$","5","5","0">> >>,
      << "Savoy",
         <<"S","a","v","o","y">> >>,
      << "Park Hyatt",
         <<"P","a","r","k"," ","H","y","a","t","t">> >>,
      << "I'm sorry, I don't have a specific hotel recommendation for ",
         <<"I","'","m"," ","s","o","r","r","y",","," ","I"," ","d","o","n",
           "'","t"," ","h","a","v","e"," ","a"," ","s","p","e","c","i","f",
           "i","c"," ","h","o","t","e","l"," ","r","e","c","o","m","m","e",
           "n","d","a","t","i","o","n"," ","f","o","r"," ">> >>,
      << "Found flights from ",
         <<"F","o","u","n","d"," ","f","l","i","g","h","t","s"," ","f","r",
           "o","m"," ">> >>,
      << " to ",
         <<" ","t","o"," ">> >>,
      << ". A non-stop flight is available for ",
         <<"."," ","A"," ","n","o","n","-","s","t","o","p"," ","f","l","i",
           "g","h","t"," ","i","s"," ","a","v","a","i","l","a","b","l","e",
           " ","f","o","r"," ">> >>,
      << "Tool called: searchFlights from ",
         <<"T","o","o","l"," ","c","a","l","l","e","d",":"," ","s","e","a",
           "r","c","h","F","l","i","g","h","t","s"," ","f","r","o","m",
           " ">> >>,
      << "The ",
         <<"T","h","e"," ">> >>,
      << " is a highly-rated luxury hotel with excellent reviews.",
         <<" ","i","s"," ","a"," ","h","i","g","h","l","y","-","r","a","t",
           "e","d"," ","l","u","x","u","r","y"," ","h","o","t","e","l"," ",
           "w","i","t","h"," ","e","x","c","e","l","l","e","n","t"," ","r",
           "e","v","i","e","w","s",".">> >>,
      << " is a great choice with stunning city views.",
         <<" ","i","s"," ","a"," ","g","r","e","a","t"," ","c","h","o","i",
           "c","e"," ","w","i","t","h"," ","s","t","u","n","n","i","n","g",
           " ","c","i","t","y"," ","v","i","e","w","s",".">> >>,
      << "Tool called: suggestHotel in ",
         <<"T","o","o","l"," ","c","a","l","l","e","d",":"," ","s","u","g",
           "g","e","s","t","H","o","t","e","l"," ","i","n"," ">> >>,
      << "null",
         <<"n","u","l","l">> >>,
      << "string",
         <<"s","t","r","i","n","g">> >>,
      << "in string literal",
         <<"i","n"," ","s","t","r","i","n","g"," ","l","i","t","e","r","a",
           "l">> >>,
      << "in string escape code",
         <<"i","n"," ","s","t","r","i","n","g"," ","e","s","c","a","p","e",
           " ","c","o","d","e">> >>,
      << "in \\u hexadecimal character escape",
         <<"i","n"," ","\\","u"," ","h","e","x","a","d","e","c","i","m","a",
           "l"," ","c","h","a","r","a","c","t","e","r"," ","e","s","c","a",
           "p","e">> >>,
      << "number",
         <<"n","u","m","b","e","r">> >>,
      << "in numeric literal",
         <<"i","n"," ","n","u","m","e","r","i","c"," ","l","i","t","e","r",
           "a","l">> >>,
      << "after decimal point in numeric literal",
         <<"a","f","t","e","r"," ","d","e","c","i","m","a","l"," ","p","o",
           "i","n","t"," ","i","n"," ","n","u","m","e","r","i","c"," ","l",
           "i","t","e","r","a","l">> >>,
      << "in exponent of numeric literal",
         <<"i","n"," ","e","x","p","o","n","e","n","t"," ","o","f"," ","n",
           "u","m","e","r","i","c"," ","l","i","t","e","r","a","l">> >>,
      << "exceeded max depth",
         <<"e","x","c","e","e","d","e","d"," ","m","a","x"," ","d","e","p",
           "t","h">> >>,
      << "object",
         <<"o","b","j","e","c","t">> >>,
      << "array",
         <<"a","r","r","a","y">> >>,
      << "true",
         <<"t","r","u","e">> >>,
      << "bool",
         <<"b","o","o","l">> >>,
      << "false",
         <<"f","a","l","s","e">> >>,
      << "looking for beginning of value",
         <<"l","o","o","k","i","n","g"," ","f","o","r"," ","b","e","g","i",
           "n","n","i","n","g"," ","o","f"," ","v","a","l","u","e">> >>,
      << "after array element",
         <<"a","f","t","e","r"," ","a","r","r","a","y"," ","e","l","e","m",
           "e","n","t">> >>,
      << "looking for beginning of object key string",
         <<"l","o","o","k","i","n","g"," ","f","o","r"," ","b","e","g","i",
           "n","n","i","n","g"," ","o","f"," ","o","b","j","e","c","t"," ",
           "k","e","y"," ","s","t","r","i","n","g">> >>,
      << "after object key",
         <<"a","f","t","e","r"," ","o","b","j","e","c","t"," ","k","e",
           "y">> >>,
      << "after object key:value pair",
         <<"a","f","t","e","r"," ","o","b","j","e","c","t"," ","k","e","y",
           ":","v","a","l","u","e"," ","p","a","i","r">> >>,
      << "invalid character ",
         <<"i","n","v","a","l","i","d"," ","c","h","a","r","a","c","t","e",
           "r"," ">> >>,
      << "json: cannot unmarshal ",
         <<"j","s","o","n",":"," ","c","a","n","n","o","t"," ","u","n","m",
           "a","r","s","h","a","l"," ">> >>,
      << " into Go value of type main.TravelAgentInput",
         <<" ","i","n","t","o"," ","G","o"," ","v","a","l","u","e"," ","o",
           "f"," ","t","y","p","e"," ","m","a","i","n",".","T","r","a","v",
           "e","l","A","g","e","n","t","I","n","p","u","t">> >>,
      << " into Go struct field TravelAgentInput.userQuery of type string",
         <<" ","i","n","t","o"," ","G","o"," ","s","t","r","u","c","t"," ",
           "f","i","e","l","d"," ","T","r","a","v","e","l","A","g","e","n",
           "t","I","n","p","u","t",".","u","s","e","r","Q","u","e","r","y",
           " ","o","f"," ","t","y","p","e"," ","s","t","r","i","n","g">> >>,
      << "EOF",
         <<"E","O","F">> >>,
      << "unexpected EOF",
         <<"u","n","e","x","p","e","c","t","e","d"," ","E","O","F">> >>,
      << "You are a professional and courteous travel agent assistant.",
         <<"Y","o","u"," ","a","r","e"," ","a"," ","p","r","o","f","e","s",
           "s","i","o","n","a","l"," ","a","n","d"," ","c","o","u","r","t",
           "e","o","u","s"," ","t","r","a","v","e","l"," ","a","g","e","n",
           "t"," ","a","s","s","i","s","t","a","n","t",".">> >>,
      << "\n\t\t\t",
         <<"\n","\t","\t","\t">> >>,
      << "You have access to the following tools:",
         <<"Y","o","u"," ","h","a","v","e"," ","a","c","c","e","s","s"," ",
           "t","o"," ","t","h","e"," ","f","o","l","l","o","w","i","n","g",
           " ","t","o","o","l","s",":">> >>,
      << "- searchFlights: to find flights between two cities.",
         <<"-"," ","s","e","a","r","c","h","F","l","i","g","h","t","s",":",
           " ","t","o"," ","f","i","n","d"," ","f","l","i","g","h","t","s",
           " ","b","e","t","w","e","e","n"," ","t","w","o"," ","c","i","t",
           "i","e","s",".">> >>,
      << "- suggestHotel: to recommend a hotel in a specific city.",
         <<"-"," ","s","u","g","g","e","s","t","H","o","t","e","l",":"," ",
           "t","o"," ","r","e","c","o","m","m","e","n","d"," ","a"," ","h",
           "o","t","e","l"," ","i","n"," ","a"," ","s","p","e","c","i","f",
           "i","c"," ","c","i","t","y",".">> >>,
      << "\n\n\t\t\t",
         <<"\n","\n","\t","\t","\t">> >>,
      << "Your goal is to fulfill the user's travel request by intelligently using the tools at your disposal.",
         <<"Y","o","u","r"," ","g","o","a","l"," ","i","s"," ","t","o"," ",
           "f","u","l","f","i","l","l"," ","t","h","e"," ","u","s","e","r",
           "'","s"," ","t","r","a","v","e","l"," ","r","e","q","u","e","s",
           "t"," ","b","y"," ","i","n","t","e","l","l","i","g","e","n","t",
           "l","y"," ","u","s","i","n","g"," ","t","h","e"," ","t","o","o",
           "l","s"," ","a","t"," ","y","o","u","r"," ","d","i","s","p","o",
           "s","a","l",".">> >>,
      << "- If the user asks for a flight, use the searchFlights tool.",
         <<"-"," ","I","f"," ","t","h","e"," ","u","s","e","r"," ","a","s",
           "k","s"," ","f","o","r"," ","a"," ","f","l","i","g","h","t",",",
           " ","u","s","e"," ","t","h","e"," ","s","e","a","r","c","h","F",
           "l","i","g","h","t","s"," ","t","o","o","l",".">> >>,
      << "- If the user asks for a hotel, use the suggestHotel tool.",
         <<"-"," ","I","f"," ","t","h","e"," ","u","s","e","r"," ","a","s",
           "k","s"," ","f","o","r"," ","a"," ","h","o","t","e","l",","," ",
           "u","s","e"," ","t","h","e"," ","s","u","g","g","e","s","t","H",
           "o","t","e","l"," ","t","o","o","l",".">> >>,
      << "- If the user asks for both, you should call both tools sequentially or in parallel as needed.",
         <<"-"," ","I","f"," ","t","h","e"," ","u","s","e","r"," ","a","s",
           "k","s"," ","f","o","r"," ","b","o","t","h",","," ","y","o","u",
           " ","s","h","o","u","l","d"," ","c","a","l","l"," ","b","o","t",
           "h"," ","t","o","o","l","s"," ","s","e","q","u","e","n","t","i",
           "a","l","l","y"," ","o","r"," ","i","n"," ","p","a","r","a","l",
           "l","e","l"," ","a","s"," ","n","e","e","d","e","d",".">> >>,
      << "- If you are missing any information (e.g., a city or destination), you MUST ask the user for it.",
         <<"-"," ","I","f"," ","y","o","u"," ","a","r","e"," ","m","i","s",
           "s","i","n","g"," ","a","n","y"," ","i","n","f","o","r","m","a",
           "t","i","o","n"," ","(","e",".","g",".",","," ","a"," ","c","i",
           "t","y"," ","o","r"," ","d","e","s","t","i","n","a","t","i","o",
           "n",")",","," ","y","o","u"," ","M","U","S","T"," ","a","s","k",
           " ","t","h","e"," ","u","s","e","r"," ","f","o","r"," ","i","t",
           ".">> >>,
      << "- If the user's request is not related to travel, respond politely that you can only help with travel-related queries.",
         <<"-"," ","I","f"," ","t","h","e"," ","u","s","e","r","'","s"," ",
           "r","e","q","u","e","s","t"," ","i","s"," ","n","o","t"," ","r",
           "e","l","a","t","e","d"," ","t","o"," ","t","r","a","v","e","l",
           ","," ","r","e","s","p","o","n","d"," ","p","o","l","i","t","e",
           "l","y"," ","t","h","a","t"," ","y","o","u"," ","c","a","n"," ",
           "o","n","l","y"," ","h","e","l","p"," ","w","i","t","h"," ","t",
           "r","a","v","e","l","-","r","e","l","a","t","e","d"," ","q","u",
           "e","r","i","e","s",".">> >>,
      << "The user's request is: ",
         <<"T","h","e"," ","u","s","e","r","'","s"," ","r","e","q","u","e",
           "s","t"," ","i","s",":"," ">> >>,
      << "searchFlights",
         <<"s","e","a","r","c","h","F","l","i","g","h","t","s">> >>,
      << "suggestHotel",
         <<"s","u","g","g","e","s","t","H","o","t","e","l">> >>,
      << "POST",
         <<"P","O","S","T">> >>,
      << "text/plain; charset=utf-8",
         <<"t","e","x","t","/","p","l","a","i","n",";"," ","c","h","a","r",
           "s","e","t","=","u","t","f","-","8">> >>,
      << "application/json",
         <<"a","p","p","l","i","c","a","t","i","o","n","/","j","s","o",
           "n">> >>,
      << "Method not allowed",
         <<"M","e","t","h","o","d"," ","n","o","t"," ","a","l","l","o","w",
           "e","d">> >>,
      << "Invalid JSON: ",
         <<"I","n","v","a","l","i","d"," ","J","S","O","N",":"," ">> >>,
      << "8080",
         <<"8","0","8","0">> >>,
      << "127.0.0.1",
         <<"1","2","7",".","0",".","0",".","1">> >>,
      << "listen tcp ",
         <<"l","i","s","t","e","n"," ","t","c","p"," ">> >>,
      << ": bind: address already in use",
         <<":"," ","b","i","n","d",":"," ","a","d","d","r","e","s","s"," ",
           "a","l","r","e","a","d","y"," ","i","n"," ","u","s","e">> >>,
      << "Starting Genkit server on port ",
         <<"S","t","a","r","t","i","n","g"," ","G","e","n","k","i","t"," ",
           "s","e","r","v","e","r"," ","o","n"," ","p","o","r","t"," ">> >>,
      << "GET",
         <<"G","E","T">> >>,
      << "model unavailable",
         <<"m","o","d","e","l"," ","u","n","a","v","a","i","l","a","b","l",
           "e">> >>,
      << "9090",
         <<"9","0","9","0">> >>,
      << "3000",
         <<"3","0","0","0">> >>,
      << "in literal true (expecting 'r')",
         <<"i","n"," ","l","i","t","e","r","a","l"," ","t","r","u","e"," ",
           "(","e","x","p","e","c","t","i","n","g"," ","'","r","'",")">> >>,
      << "in literal true (expecting 'u')",
         <<"i","n"," ","l","i","t","e","r","a","l"," ","t","r","u","e"," ",
           "(","e","x","p","e","c","t","i","n","g"," ","'","u","'",")">> >>,
      << "in literal true (expecting 'e')",
         <<"i","n"," ","l","i","t","e","r","a","l"," ","t","r","u","e"," ",
           "(","e","x","p","e","c","t","i","n","g"," ","'","e","'",")">> >>,
      << "in literal false (expecting 'a')",
         <<"i","n"," ","l","i","t","e","r","a","l"," ","f","a","l","s","e",
           " ","(","e","x","p","e","c","t","i","n","g"," ","'","a","'",
           ")">> >>,
      << "in literal false (expecting 'l')",
         <<"i","n"," ","l","i","t","e","r","a","l"," ","f","a","l","s","e",
           " ","(","e","x","p","e","c","t","i","n","g"," ","'","l","'",
           ")">> >>,
      << "in literal false (expecting 's')",
         <<"i","n"," ","l","i","t","e","r","a","l"," ","f","a","l","s","e",
           " ","(","e","x","p","e","c","t","i","n","g"," ","'","s","'",
           ")">> >>,
      << "in literal false (expecting 'e')",
         <<"i","n"," ","l","i","t","e","r","a","l"," ","f","a","l","s","e",
           " ","(","e","x","p","e","c","t","i","n","g"," ","'","e","'",
           ")">> >>,
      << "in literal null (expecting 'u')",
         <<"i","n"," ","l","i","t","e","r","a","l"," ","n","u","l","l"," ",
           "(","e","x","p","e","c","t","i","n","g"," ","'","u","'",")">> >>,
      << "in literal null (expecting 'l')",
         <<"i","n"," ","l","i","t","e","r","a","l"," ","n","u","l","l"," ",
           "(","e","x","p","e","c","t","i","n","g"," ","'","l","'",")">> >>,
      << "in literal null (expecting 'l')",
         <<"i","n"," ","l","i","t","e","r","a","l"," ","n","u","l","l"," ",
           "(","e","x","p","e","c","t","i","n","g"," ","'","l","'",")">> >>
    >>

Literals == {Spelling[k][1] : k \in 1..Len(Spelling)}
SpellingOf ==
    [p \in Literals |->
        Spelling[CHOOSE k \in 1..Len(Spelling) : Spelling[k][1] = p][2]]

\* The bytes of a string: the bytes of its pieces, one after the other
RECURSIVE BytesOf(_)
BytesOf(s) ==
    IF s = <<>> THEN <<>>
    ELSE (IF Head(s) \in Bytes THEN <<Head(s)>> ELSE SpellingOf[Head(s)])
            \o BytesOf(Tail(s))

\* t occurs in s, both sequences of bytes
Occurs(s, t) == \E i \in 0..(Len(s) - Len(t)) : SubSeq(s, i + 1, i + Len(t)) = t

\* The string s contains the string sub, byte for byte, wherever the pieces
\* of either are cut
Contains(s, sub) == Occurs(BytesOf(s), BytesOf(sub))

Terminal == {"ResponseSent", "FailureExit"}
Parsed(r) == pc[r] \in {"BodyParsed", "Delegated", "ResponseSent", "FailureExit"}

\* C1: a request whose method is not POST is answered 405, and neither the
\* body decode nor the model flow ever runs for it, whatever its body.
C1_NonPostRejected ==
    \A r \in Reqs :
        (pc[r] # "Idle" /\ method[r] # MethodPost) =>
            /\ decoded[r] = 0
            /\ calls[r] = <<>>
            /\ pc[r] \in {"Received", "FailureExit"}
            /\ pc[r] = "FailureExit" =>
                  /\ Len(resp[r]) = 1
                  /\ resp[r][1].status = 405
                  /\ resp[r][1].body = <<"Method not allowed", "\n">>

C1_Witness ==
    \E r \in Reqs :
        /\ method[r] = "GET"
        /\ body[r] \in {ValidBody(q) : q \in Queries}
        /\ pc[r] = "FailureExit"
        /\ resp[r][1].status = 405

\* C2: a POST whose body lacks the userQuery field is answered 400 and the
\* model flow is never invoked for it.
C2_MissingFieldRejected ==
    \A r \in Reqs :
        (method[r] = MethodPost /\ body[r] \in MissingFieldBodies) =>
            /\ calls[r] = <<>>
            /\ Parsed(r) =>
                  /\ pc[r] = "FailureExit"
                  /\ Len(resp[r]) = 1
                  /\ resp[r][1].status = 400

\* The error description Go's decoder gives for each undecodable body
DecodeErrorOf(b) ==
    CASE b = NumberQueryBody ->
            <<"json: cannot unmarshal ", "number",
              " into Go struct field TravelAgentInput.userQuery of type string">>
      [] b = TruncatedBody -> <<"unexpected EOF">>
      [] b = UnquotedKeyBody ->
            <<"invalid character ", "'", "u", "'", " ",
              "looking for beginning of object key string">>
      [] b = NoBody -> <<"EOF">>
      [] b = ArrayBody ->
            <<"json: cannot unmarshal ", "array",
              " into Go value of type main.TravelAgentInput">>
      [] OTHER -> <<>>

\* C3: a POST whose body fails JSON decoding (malformed JSON, or a userQuery
\* that is not a string) is answered 400 with a body that contains the decode
\* error's description, and the model flow is never invoked for it.
C3_DecodeFailureRejected ==
    \A r \in Reqs :
        (method[r] = MethodPost /\ body[r] \in UndecodableBodies) =>
            /\ calls[r] = <<>>
            /\ Parsed(r) =>
                  /\ pc[r] = "FailureExit"
                  /\ Len(resp[r]) = 1
                  /\ resp[r][1].status = 400
                  /\ resp[r][1].body =
                        <<"Invalid JSON: ">> \o DecodeErrorOf(body[r]) \o <<"\n">>
                  /\ Contains(resp[r][1].body, DecodeErrorOf(body[r]))

C3_Witness ==
    /\ \E r \in Reqs :
          /\ method[r] = MethodPost /\ body[r] = NumberQueryBody
          /\ pc[r] = "FailureExit" /\ resp[r][1].status = 400
    /\ \E r \in Reqs :
          /\ method[r] = MethodPost /\ body[r] = UnquotedKeyBody
          /\ pc[r] = "FailureExit" /\ resp[r][1].status = 400

\* The response body read back as a client reads it: the value of its
\* single field "result" (<<"?">> when the body is no such object)
ResultOf(b) ==
    LET s == ScanValue(b, 1, 0) IN
    IF /\ s.st = "ok"
       /\ s.v.k = "object"
       /\ Len(s.v.items) = 1
       /\ s.v.items[1].key = ResultName
       /\ s.v.items[1].val.k = "string"
       /\ SkipSpace(b, s.next) > Len(b)
    THEN <<"=">> \o s.v.items[1].val.s
    ELSE <<"?">>

\* C4: a POST whose body is {"userQuery": q} reaches the model flow with
\* exactly q, rendered as "The user's request is: q"; when the collaborator
\* returns the text t, the response is 200 and a JSON object whose single
\* field result is t, unchanged.
C4_QueryDelegatedResultReturned ==
    \A r \in Reqs : \A q \in Queries :
        (method[r] = MethodPost /\ body[r] = ValidBody(q)) =>
            /\ Parsed(r) => input[r] = TravelAgentInput(q)
            /\ pc[r] \in {"Delegated", "ResponseSent", "FailureExit"} =>
                  /\ Len(calls[r]) = 1
                  /\ calls[r][1].user = <<"The user's request is: ">> \o q
                  /\ calls[r][1].system = SysPrompt
                  /\ calls[r][1].tools = <<"searchFlights", "suggestHotel">>
            /\ pc[r] = "ResponseSent" =>
                  /\ Len(resp[r]) = 1
                  /\ resp[r][1].status = 200
                  /\ resp[r][1].contentType = "application/json"
                  /\ ResultOf(resp[r][1].body) = <<"=">> \o outcome[r].text

C4_Witness ==
    \E r \in Reqs :
        /\ method[r] = MethodPost
        /\ body[r] = ValidBody(<<"N","Y","C","\"","\\","<","xc3","xa9","\n">>)
        /\ pc[r] = "ResponseSent"
        /\ outcome[r].text = <<"o","k","<","\"","\\","xc3","xa9","\f","x01">>
        /\ resp[r][1].status = 200

\* The end-to-end scenario: the collaborator called the flight tool once and
\* answered with what it returned
C4_FlightScenario ==
    \E r \in Reqs :
        /\ pc[r] = "ResponseSent"
        /\ Len(toolOut[r]) = 1
        /\ outcome[r].text = toolOut[r][1]
        /\ Contains(ResultOf(resp[r][1].body), NYC)
        /\ Contains(ResultOf(resp[r][1].body), LAX)
        /\ Contains(ResultOf(resp[r][1].body), Price)

\* C5: when the collaborator call fails, the response is 500 with the
\* collaborator's error description and the request ends there; the
\* collaborator is invoked at most once for a request.
C5_FailureIsFinalNoRetry ==
    \A r \in Reqs :
        /\ Len(calls[r]) <= 1
        /\ outcome[r].err # <<>> =>
              /\ pc[r] = "FailureExit"
              /\ Len(resp[r]) = 1
              /\ resp[r][1].status = 500
              /\ resp[r][1].body = outcome[r].err \o <<"\n">>

C5_Witness ==
    \E r \in Reqs :
        /\ outcome[r].err = <<"model unavailable">>
        /\ pc[r] = "FailureExit"
        /\ resp[r][1].status = 500
        /\ Len(calls[r]) = 1

\* The encodings of the letters that differ from the lower case ASCII
\* letter c in case only: c, its capital and, for k and s, the Kelvin sign
\* U+212A and the long s U+017F
CaseForms(c) ==
    {<<c>>, <<ToUpperChar(c)>>}
        \cup (IF c = "k" THEN {<<"xe2","x84","xaa">>} ELSE {})
        \cup (IF c = "s" THEN {<<"xc5","xbf">>} ELSE {})

\* Equality ignoring the case of letters; low is in lower case ASCII
RECURSIVE EqualsIgnoringCaseFrom(_, _, _, _)
EqualsIgnoringCaseFrom(s, i, low, j) ==
    IF j > Len(low) THEN i = Len(s) + 1
    ELSE \E f \in CaseForms(low[j]) :
            /\ i + Len(f) - 1 <= Len(s)
            /\ SubSeq(s, i, i + Len(f) - 1) = f
            /\ EqualsIgnoringCaseFrom(s, i + Len(f), low, j + 1)

EqualsIgnoringCase(s, low) == EqualsIgnoringCaseFrom(s, 1, low, 1)

\* C6: the hotel tool answers with the Savoy for "london" in any letter
\* case, with the Park Hyatt for "tokyo" in any letter case, with the generic
\* no-recommendation message for every other string (the empty one too),
\* and never returns an error.
C6_HotelTool ==
    \A i \in 1..Len(trace) :
        trace[i].tool = "suggestHotel" =>
            LET d == trace[i].in.destination
                out == trace[i].res.out
            IN
            /\ trace[i].res.err = <<>>
            /\ EqualsIgnoringCase(d, london) =>
                  Contains(out, <<"S", "a", "v", "o", "y">>)
            /\ EqualsIgnoringCase(d, tokyo) =>
                  Contains(out, <<"P", "a", "r", "k", " ", "H", "y", "a", "t", "t">>)
            /\ (~EqualsIgnoringCase(d, london) /\ ~EqualsIgnoringCase(d, tokyo)) =>
                  out = <<"I'm sorry, I don't have a specific hotel recommendation for ">>
                            \o d \o <<".">>

C6_Witness ==
    /\ Len(trace) = 3
    /\ trace[1].tool = "suggestHotel"
    /\ trace[1].in.destination = <<"l","o","n","D","o","n">>
    /\ Contains(trace[1].res.out, <<"S", "a", "v", "o", "y">>)
    /\ trace[2].tool = "suggestHotel"
    /\ trace[2].in.destination = <<"t","o","xe2","x84","xaa","y","o">>
    /\ Contains(trace[2].res.out, <<"P", "a", "r", "k", " ", "H", "y", "a", "t", "t">>)
    /\ trace[3].tool = "suggestHotel"
    /\ trace[3].in.destination = <<>>
    /\ trace[3].res.out = NoRecommendation(<<>>)

C8_PortFallback ==
    (/\ proc \in {"serving", "exited"}
     /\ (IF portEnv = "" THEN "8080" ELSE portEnv) \in busy
     /\ busy # {"8080", "9090", "3000"}) => proc = "serving"

\* The stage a response status belongs to
StageSteps ==
    { <<"Idle", "Received">>,
      <<"Received", "MethodChecked">>, <<"Received", "FailureExit">>,
      <<"MethodChecked", "BodyParsed">>, <<"MethodChecked", "FailureExit">>,
      <<"BodyParsed", "Delegated">>,
      <<"Delegated", "ResponseSent">>, <<"Delegated", "FailureExit">> }

FailureStatus(stage) ==
    CASE stage = "Received" -> 405
      [] stage = "MethodChecked" -> 400
      [] OTHER -> 500

\* C9: a request moves through Received, MethodChecked, BodyParsed,
\* Delegated, ResponseSent in that order, one stage at a time and never
\* back; a failure at a stage ends the request at once; a request that ended
\* produced exactly one response, with status 405, 400, 500 or 200, the last
\* two only after delegation; a request that has not ended produced none.
C9_StageOrder ==
    [][\A r \in Reqs :
          /\ pc'[r] # pc[r] =>
                /\ <<pc[r], pc'[r]>> \in StageSteps
                /\ pc'[r] = "FailureExit" =>
                      /\ Len(resp'[r]) = 1
                      /\ resp'[r][1].status = FailureStatus(pc[r])
                /\ pc'[r] = "ResponseSent" =>
                      /\ Len(resp'[r]) = 1
                      /\ resp'[r][1].status = 200
          /\ pc'[r] = pc[r] => resp'[r] = resp[r]
          /\ pc'[r] \notin Terminal => resp'[r] = <<>>
          /\ pc'[r] \in Terminal =>
                /\ Len(resp'[r]) = 1
                /\ resp'[r][1].status \in {405, 400, 500, 200}
                /\ resp'[r][1].status \in {500, 200} => Len(calls'[r]) = 1
      ]_vars

C9_Witness ==
    /\ \E r \in Reqs : pc[r] = "ResponseSent" /\ resp[r][1].status = 200
    /\ \E r \in Reqs : pc[r] = "FailureExit" /\ resp[r][1].status = 400

\* Everything the handler holds for one request
RequestState(r) ==
    <<pc[r], method[r], body[r], input[r], decoded[r], calls[r], toolOut[r],
      outcome[r], resp[r]>>

\* The response the handler gives to method m and body b when the
\* collaborator, if it is reached, returns o
ExpectedResponse(m, b, o) ==
    IF m # "POST" THEN
        [status |-> 405, contentType |-> "text/plain; charset=utf-8",
         body |-> <<"Method not allowed", "\n">>]
    ELSE IF Decode(b, ZeroInput).err # <<>> THEN
        [status |-> 400, contentType |-> "text/plain; charset=utf-8",
         body |-> <<"Invalid JSON: ">> \o Decode(b, ZeroInput).err \o <<"\n">>]
    ELSE IF o.err # <<>> THEN
        [status |-> 500, contentType |-> "text/plain; charset=utf-8",
         body |-> o.err \o <<"\n">>]
    ELSE
        [status |-> 200, contentType |-> "application/json",
         body |-> EncodeResult(o.text)]

\* C10: with requests handled concurrently in any interleaving, a step
\* (handler step or tool call) of one request changes nothing another request
\* holds, and the response of a request, and what the collaborator is asked
\* for it, depend on its own method, body and collaborator result alone.
C10_RequestsIndependent ==
    [][/\ \A r1, r2 \in Reqs :
            (r1 # r2 /\ RequestState(r1)' # RequestState(r1)) =>
                RequestState(r2)' = RequestState(r2)
       /\ \A r \in Reqs :
            RequestState(r)' # RequestState(r) =>
                /\ pc'[r] \in Terminal =>
                      resp'[r] = <<ExpectedResponse(method'[r], body'[r], outcome'[r])>>
                /\ calls'[r] # <<>> =>
                      calls'[r] = <<ModelRequest(Decode(body'[r], ZeroInput).input)>>
      ]_vars

C10_Witness ==
    \E r1, r2 \in Reqs :
        /\ r1 # r2
        /\ pc[r1] = "ResponseSent" /\ pc[r2] = "Delegated"
        /\ body[r1] # body[r2]
        /\ toolOut[r2] # <<>>

====
